---- MODULE Spec2Model ----
(***************************************************************************)
(* State-machine model of the build123d part builder (build_part.py) and   *)
(* the sketch builder (build_sketch.py).                                   *)
(*                                                                         *)
(* Geometry is abstracted to a one-dimensional world of NCells unit cells: *)
(* a solid is the set of cells it occupies, an edge or a face sits at a    *)
(* cell position, a location is a translation by a number of cells, and    *)
(* the kernel's boolean operations are the set operations on cell sets.    *)
(***************************************************************************)
EXTENDS Integers, Sequences, FiniteSets, TLC

\* ------------------------------------------------------------------ bounds
NCells == 2
MaxPending == 2

Cells == 1..NCells
\* a location translates by a number of cells; its plane carries the same index

\* ------------------------------------------------------------------- modes
Mode == {"ADD", "SUBTRACT", "INTERSECT", "REPLACE", "CONSTRUCTION", "PRIVATE"}

\* the mode values a caller passes to the part builder: the modes and one that is none of them
ModeInputs == Mode \cup {"INVALID"}

\* ------------------------------------------------------------------ shapes
Edge(p) == [kind |-> "Edge", pos |-> p, pts |-> {}, parts |-> <<>>]
Face(p) == [kind |-> "Face", pos |-> p, pts |-> {}, parts |-> <<>>]
Wire(p) == [kind |-> "Wire", pos |-> p, pts |-> {}, parts |-> <<>>]
Solid(P) == [kind |-> "Solid", pos |-> 0, pts |-> P, parts |-> <<>>]
Compound(ps) == [kind |-> "Compound", pos |-> 0, pts |-> {}, parts |-> ps]
\* a python list that ended up where a shape is expected
PyList(p) == [kind |-> "list", pos |-> p, pts |-> {}, parts |-> <<>>]

\* self.part: None, or a shape occupying the cells pts
None == [some |-> FALSE, pts |-> {}]
Part(P) == [some |-> TRUE, pts |-> P]

\* obj.moved(loc)
Moved(obj, loc) ==
    [obj EXCEPT !.pos = IF @ + loc > NCells THEN NCells ELSE @ + loc,
                !.pts = {c \in Cells : (c - loc) \in @}]

PlaneOf(loc) == <<"plane", loc>>

\* -------------------------------------------------------- kernel: topology
Boundary(P) == {i \in 0..NCells : (i \in P) # ((i + 1) \in P)}
RunOf(P, i) == {j \in P : \A k \in Cells : ((i <= k /\ k <= j) \/ (j <= k /\ k <= i)) => k \in P}
Vertices(p) == IF p.some THEN {<<"V", i>> : i \in Boundary(p.pts)} ELSE {}
Edges(p) == IF p.some THEN {<<"E", i>> : i \in Boundary(p.pts)} ELSE {}
Faces(p) == IF p.some THEN {<<"F", i>> : i \in Boundary(p.pts)} ELSE {}
Solids(p) == IF p.some THEN {RunOf(p.pts, i) : i \in p.pts} ELSE {}

\* -------------------------------------------------------- kernel: booleans
RECURSIVE UnionPts(_)
UnionPts(shapes) ==
    IF shapes = <<>> THEN {} ELSE Head(shapes).pts \cup UnionPts(Tail(shapes))
\* base.fuse(*tools)
Fuse(P, tools) == P \cup UnionPts(tools)
\* base.cut(*tools)
Cut(P, tools) == P \ UnionPts(tools)
\* base.intersect(*tools)
Intersect(P, tools) == {c \in P : \A i \in 1..Len(tools) : c \in tools[i].pts}

\* ------------------------------------------------------------- sequences
RECURSIVE Flatten(_)
Flatten(ss) == IF ss = <<>> THEN <<>> ELSE Head(ss) \o Flatten(Tail(ss))
OfKind(s, k) == SelectSeq(s, LAMBDA o : o.kind = k)

\* ------------------------------------------------------------ BuildPart
\* BuildPart.__init__
NewBuildPart ==
    [part |-> None,
     pending_faces |-> <<>>, pending_face_planes |-> <<>>,
     pending_edges |-> <<>>, pending_edge_planes |-> <<>>,
     last_vertices |-> {}, last_edges |-> {}, last_faces |-> {}, last_solids |-> {}]

\* index of the first object that has no .moved (a python list), or Len + 1
FirstBad(objs) ==
    IF \E i \in 1..Len(objs) : objs[i].kind = "list"
    THEN CHOOSE i \in 1..Len(objs) :
            objs[i].kind = "list" /\ \A j \in 1..(i - 1) : objs[j].kind # "list"
    ELSE Len(objs) + 1

\* the (localized object, plane) pairs the double loop of _add_to_pending appends
Localized(objs, locs) ==
    Flatten([i \in 1..Len(objs) |->
                [j \in 1..Len(locs) |->
                    [obj |-> Moved(objs[i], locs[j]), plane |-> PlaneOf(locs[j])]]])

\* BuildPart._add_to_pending: returns the builder and the error raised, if any
AddToPending(b, objs, locs) ==
    LET k == FirstBad(objs)
        new == Localized(SubSeq(objs, 1, k - 1), locs)
        fs == SelectSeq(new, LAMBDA e : e.obj.kind = "Face")
        es == SelectSeq(new, LAMBDA e : e.obj.kind # "Face")
    IN [b |-> [b EXCEPT
                 !.pending_faces = @ \o [i \in 1..Len(fs) |-> fs[i].obj],
                 !.pending_face_planes = @ \o [i \in 1..Len(fs) |-> fs[i].plane],
                 !.pending_edges = @ \o [i \in 1..Len(es) |-> es[i].obj],
                 !.pending_edge_planes = @ \o [i \in 1..Len(es) |-> es[i].plane]],
        err |-> IF k <= Len(objs) THEN "AttributeError" ELSE "none"]

\* the partition loop of _add_to_context
Accepted(o) == o.kind \in {"Face", "Solid", "Edge", "Compound"}
EdgesIn(o) ==
    CASE o.kind = "Edge" -> <<o>>
      [] o.kind = "Compound" ->
            OfKind(o.parts, "Edge")
            \o [i \in 1..Len(OfKind(o.parts, "Wire")) |-> PyList(OfKind(o.parts, "Wire")[i].pos)]
      [] OTHER -> <<>>
FacesIn(o) ==
    CASE o.kind = "Face" -> <<o>>
      [] o.kind = "Compound" -> OfKind(o.parts, "Face")
      [] OTHER -> <<>>
SolidsIn(o) ==
    CASE o.kind = "Solid" -> <<o>>
      [] o.kind = "Compound" -> OfKind(o.parts, "Solid")
      [] OTHER -> <<>>
Partition(objects, faces_to_pending) ==
    LET fs == Flatten([i \in 1..Len(objects) |-> FacesIn(objects[i])])
        es == Flatten([i \in 1..Len(objects) |-> EdgesIn(objects[i])])
        ss == Flatten([i \in 1..Len(objects) |-> SolidsIn(objects[i])])
    IN [new_edges |-> es,
        new_faces |-> IF faces_to_pending THEN fs ELSE <<>>,
        new_solids |-> IF faces_to_pending THEN ss ELSE ss \o fs]

\* Combine with the popped solid lost when several solids start a part
CombineDropsPopped(part, new_solids, mode) ==
    CASE mode = "ADD" ->
            IF ~part.some
            THEN IF Len(new_solids) = 1
                 THEN Part(new_solids[1].pts)
                 ELSE Part(UnionPts(SubSeq(new_solids, 1, Len(new_solids) - 1)))
            ELSE Part(Fuse(part.pts, new_solids))
      [] mode = "SUBTRACT" -> Part(Cut(part.pts, new_solids))
      [] mode = "INTERSECT" -> Part(Intersect(part.pts, new_solids))
      [] mode = "REPLACE" -> Part(UnionPts(new_solids))
      [] OTHER -> part

\* Combine with construction geometry fused like added geometry
CombineConstruction(part, new_solids, mode) ==
    CASE mode \in {"ADD", "CONSTRUCTION"} -> Part(Fuse(part.pts, new_solids))
      [] mode = "SUBTRACT" -> Part(Cut(part.pts, new_solids))
      [] mode = "INTERSECT" -> Part(Intersect(part.pts, new_solids))
      [] mode = "REPLACE" -> Part(UnionPts(new_solids))
      [] OTHER -> part

\* Combine with the subtract branch calling intersect, as a copied branch left unedited would
CombineSubtractIntersects(part, new_solids, mode) ==
    CASE mode = "ADD" -> Part(Fuse(part.pts, new_solids))
      [] mode \in {"SUBTRACT", "INTERSECT"} -> Part(Intersect(part.pts, new_solids))
      [] mode = "REPLACE" -> Part(UnionPts(new_solids))
      [] OTHER -> part

\* the boolean step of _add_to_context: the new self.part
Combine(part, new_solids, mode) ==
    CASE mode = "ADD" ->
            IF ~part.some
            THEN IF Len(new_solids) = 1
                 THEN Part(new_solids[1].pts)
                 ELSE Part(Fuse(new_solids[Len(new_solids)].pts,
                                SubSeq(new_solids, 1, Len(new_solids) - 1)))
            ELSE Part(Fuse(part.pts, new_solids))
      [] mode = "SUBTRACT" -> Part(Cut(part.pts, new_solids))
      [] mode = "INTERSECT" -> Part(Intersect(part.pts, new_solids))
      [] mode = "REPLACE" -> Part(UnionPts(new_solids))
      [] OTHER -> part

\* CombineError with the test for a missing part left out of the intersect branch
CombineErrorSubtractOnly(part, new_solids, mode) ==
    IF new_solids # <<>> /\ ~part.some /\ mode = "SUBTRACT" THEN "NothingToSubtractFrom"
    ELSE "none"

\* CombineError with the test for a missing part made before the test for new solids
CombineErrorBeforeSolids(part, new_solids, mode) ==
    IF ~part.some /\ mode = "SUBTRACT" THEN "NothingToSubtractFrom"
    ELSE IF ~part.some /\ mode = "INTERSECT" THEN "NothingToIntersectWith"
    ELSE "none"

\* the error the boolean step raises, if any
CombineError(part, new_solids, mode) ==
    IF new_solids # <<>> /\ ~part.some /\ mode = "SUBTRACT" THEN "NothingToSubtractFrom"
    ELSE IF new_solids # <<>> /\ ~part.some /\ mode = "INTERSECT" THEN "NothingToIntersectWith"
    ELSE "none"

\* WithDiff with the pre-merge solids not subtracted
WithDiffAllSolids(b, pre, post) ==
    [b EXCEPT !.part = post,
              !.last_vertices = Vertices(post) \ Vertices(pre),
              !.last_edges = Edges(post) \ Edges(pre),
              !.last_faces = Faces(post) \ Faces(pre),
              !.last_solids = Solids(post)]

\* the last_* lists: post-merge topology minus pre-merge topology
WithDiff(b, pre, post) ==
    [b EXCEPT !.part = post,
              !.last_vertices = Vertices(post) \ Vertices(pre),
              !.last_edges = Edges(post) \ Edges(pre),
              !.last_faces = Faces(post) \ Faces(pre),
              !.last_solids = Solids(post) \ Solids(pre)]

\* Integrate with the pending appends made before the boolean step, so that a failing
\* boolean step leaves the edges and faces of its input behind
IntegratePendingFirst(b, locs, objects, faces_to_pending, mode) ==
    IF \E i \in 1..Len(objects) : ~Accepted(objects[i])
    THEN [b |-> b, err |-> "UnsupportedType"]
    ELSE
      LET p == Partition(objects, faces_to_pending)
          r2 == AddToPending(b, p.new_edges, locs)
          r3 == AddToPending(r2.b, p.new_faces, locs)
          e == CombineError(b.part, p.new_solids, mode)
          post == IF p.new_solids # <<>> THEN Combine(b.part, p.new_solids, mode) ELSE b.part
      IN IF r2.err # "none" THEN r2
         ELSE IF r3.err # "none" THEN r3
         ELSE IF e # "none" THEN [b |-> r3.b, err |-> e]
         ELSE [b |-> WithDiff(r3.b, b.part, post), err |-> "none"]

\* _add_to_context past its mode test: partition, boolean step, diff, pending
Integrate(b, locs, objects, faces_to_pending, mode) ==
    IF \E i \in 1..Len(objects) : ~Accepted(objects[i])
    THEN [b |-> b, err |-> "UnsupportedType"]
    ELSE
      LET p == Partition(objects, faces_to_pending)
          e == CombineError(b.part, p.new_solids, mode)
          post == IF p.new_solids # <<>> THEN Combine(b.part, p.new_solids, mode) ELSE b.part
          b1 == WithDiff(b, b.part, post)
          r2 == AddToPending(b1, p.new_edges, locs)
          r3 == AddToPending(r2.b, p.new_faces, locs)
      IN IF e # "none" THEN [b |-> b, err |-> e]
         ELSE IF r2.err # "none" THEN r2
         ELSE r3

\* AddToContext without the test for Mode.PRIVATE
AddToContextAlways(b, locs, objects, faces_to_pending, mode) ==
    Integrate(b, locs, objects, faces_to_pending, mode)

\* BuildPart._add_to_context: returns the builder and the error raised, if any
AddToContext(b, locs, objects, faces_to_pending, mode) ==
    IF mode = "PRIVATE" THEN [b |-> b, err |-> "none"]
    ELSE Integrate(b, locs, objects, faces_to_pending, mode)

\* ------------------------------------------------------------- kernel: solids
Span(lo, hi) == {c \in Cells : lo <= c /\ c <= hi}
\* Solid.extrudeLinear(face, plane.zDir * amount * dir, taper)
ExtrudeLinear(face, amount, dir) ==
    IF dir = 1 THEN Solid(Span(face.pos, face.pos + amount - 1))
    ELSE Solid(Span(face.pos - amount, face.pos - 1))
MinPos(fs) == CHOOSE p \in {fs[i].pos : i \in 1..Len(fs)} :
                 \A q \in {fs[i].pos : i \in 1..Len(fs)} : p <= q
MaxPos(fs) == CHOOSE p \in {fs[i].pos : i \in 1..Len(fs)} :
                 \A q \in {fs[i].pos : i \in 1..Len(fs)} : q <= p
\* Solid.makeLoft(loft_wires, ruled)
MakeLoft(fs) == IF fs = <<>> THEN Solid({}) ELSE Solid(Span(MinPos(fs), MaxPos(fs)))
\* Solid.revolve(profile, angle, axis_origin, axis_origin + axis_direction)
RevolveSolid(profile) == Solid({profile.pos})
\* Solid.sweep(section, path_wire, ...)
SweepSolid(section) == Solid({section.pos})
\* Solid.makeBox / makeCone / makeCylinder / makeSphere / makeTorus / makeWedge
PrimitiveSolid == Solid({1})
\* Solid.makeCylinder(radius, hole_depth, ...) and its counter-bore / counter-sink fusions
HoleSolid == Solid({1})

\* ------------------------------------------------------------------ state
VARIABLES
    current,        \* BuildPart._current holds a builder
    builder,        \* the fields of the BuildPart instance
    locations,      \* LocationList._get_context().locations (planes[i] = PlaneOf(locations[i]))
    call,           \* the last call made and how it ended
    context_stack,  \* build_sketch's global stack of open builders, innermost last
    scopes          \* the ids of the builders whose with-block is open, innermost last

vars == <<current, builder, locations, call, context_stack, scopes>>
partVars == <<current, builder, locations>>
sketchVars == <<context_stack, scopes>>

Bootstrap == <<0>>
\* the placement sets a caller installs: the identity, one translation, both in either order
LocationLists == {<<0>>, <<1>>, <<0, 1>>, <<1, 0>>}

\* a call of op with arguments args and mode, which raised err ("none": it returned)
Called(op, args, mode, err) == [op |-> op, args |-> args, mode |-> mode, err |-> err, ret |-> "-"]
\* a lookup that returned ret
Returned(op, ret) == [op |-> op, args |-> <<>>, mode |-> "ADD", err |-> "none", ret |-> ret]
\* no call is in progress: the caller is between two calls
Idle == Called("idle", <<>>, "ADD", "none")

Init ==
    /\ current = FALSE
    /\ builder = NewBuildPart
    /\ locations = Bootstrap
    /\ call = Idle
    /\ context_stack = <<>>
    /\ scopes = <<>>

Bounded(b) ==
    /\ Len(b.pending_faces) + Len(b.pending_edges) <= MaxPending
    /\ Len(b.pending_face_planes) + Len(b.pending_edge_planes) <= MaxPending

\* Builder.__enter__ for a BuildPart
EnterPart ==
    /\ call = Idle
    /\ ~current
    /\ current' = TRUE
    /\ builder' = NewBuildPart
    /\ UNCHANGED <<locations, call, sketchVars>>

\* Builder.__exit__ for a BuildPart
ExitPart ==
    /\ call = Idle
    /\ current
    /\ current' = FALSE
    /\ builder' = NewBuildPart
    /\ UNCHANGED <<locations, call, sketchVars>>

\* LocationList: install the active placement set
SetLocations(ls) ==
    /\ call = Idle
    /\ locations' = ls
    /\ UNCHANGED <<current, builder, call, sketchVars>>

\* validate_inputs(self, context): the operation has no builder to work on
ValidateInputs(op, mode) ==
    /\ call = Idle
    /\ ~current
    /\ call' = Called(op, <<>>, mode, "NoActiveContext")
    /\ UNCHANGED <<partVars, sketchVars>>

\* an operation ends: r is the (builder, error) pair it leaves behind
Finish(op, args, mode, r) ==
    /\ Bounded(r.b)
    /\ builder' = r.b
    /\ call' = Called(op, args, mode, r.err)
    /\ UNCHANGED <<current, locations, sketchVars>>

\* an operation ends and what it built is on record: the solids it handed to the merge
\* and, for a hole, the z interval of each location's cylinder
FinishBuilt(op, args, mode, r, solids, extents) ==
    /\ Bounded(r.b)
    /\ builder' = r.b
    /\ call' = [Called(op, args, mode, r.err) EXCEPT
                   !.ret = IF r.err \in {"AttributeError", "NoActiveContext"} THEN "-"
                           ELSE [solids |-> solids, extents |-> extents]]
    /\ UNCHANGED <<current, locations, sketchVars>>

\* control is back with the caller, which may make its next call
Return ==
    /\ call # Idle
    /\ call' = Idle
    /\ UNCHANGED <<partVars, sketchVars>>

\* ----------------------------------------------------------------- inputs
\* the depth a caller passes to a hole: 0 for none given, or a length
Depths == {0, 2}
SolidShapes == {Solid(P) : P \in (SUBSET Cells) \ {{}}}
SolidLists ==
    {<<s>> : s \in SolidShapes} \cup {<<s, t>> : s \in SolidShapes, t \in SolidShapes}
SketchLists ==
    {<<>>, <<Edge(1)>>, <<Face(1)>>, <<Edge(1), Face(1)>>,
     <<Compound(<<Edge(1), Face(1), Solid({1})>>)>>,
     <<Compound(<<Wire(1), Edge(1)>>), Face(1)>>,
     <<Wire(1)>>}
ObjectLists ==
    SolidLists \cup {x \o s : x \in SketchLists, s \in {<<>>, <<Solid(Cells)>>}}
HasFace(objects) ==
    \E i \in 1..Len(objects) :
        objects[i].kind = "Face" \/ OfKind(objects[i].parts, "Face") # <<>>
MergeInputs ==
    {<<o, TRUE>> : o \in ObjectLists} \cup {<<o, FALSE>> : o \in {x \in ObjectLists : HasFace(x)}}

\* a direct call of BuildPart._add_to_context on the current builder
Merge(objects, faces_to_pending, mode) ==
    /\ call = Idle
    /\ current
    /\ Finish("merge", <<objects, faces_to_pending>>, mode, AddToContext(builder, locations, objects, faces_to_pending, mode))

\* two calls of _add_to_context in a row: the solid S added, then the same S subtracted
AddThenSubtract(S) ==
    /\ call = Idle
    /\ current
    /\ LET added == AddToContext(builder, locations, <<S>>, TRUE, "ADD")
           subtracted == AddToContext(added.b, locations, <<S>>, TRUE, "SUBTRACT")
       IN Finish("add_then_subtract", <<S>>, "SUBTRACT",
                 IF added.err # "none" THEN added ELSE subtracted)

\* every location's copy of one solid: [solid.moved(location) for location in locations]
AtEach(solid, locs) == [i \in 1..Len(locs) |-> Moved(solid, locs[i])]

\* Box, Cone, Cylinder, Sphere, Torus, Wedge
Primitive(mode) ==
    /\ call = Idle
    /\ current
    /\ FinishBuilt("primitive", <<>>, mode,
              AddToContext(builder, locations, AtEach(PrimitiveSolid, locations), TRUE, mode),
              AtEach(PrimitiveSolid, locations), <<>>)

\* part.fuse(Solid.makeBox(1, 1, 1).locate(location)).BoundingBox().DiagonalLength
DiagonalLength(part, loc) ==
    LET P == part.pts \cup Moved(Solid({1}), loc).pts
        lo == CHOOSE c \in P : \A d \in P : c <= d
        hi == CHOOSE c \in P : \A d \in P : d <= c
    IN hi - lo + 1

\* HoleDepth with the factor 2 of Hole missing
HoleDepthSingle(op, part, loc, depth) ==
    IF depth # 0 THEN depth ELSE DiagonalLength(part, loc)

\* hole_depth: the depth given, or the diagonal (twice the diagonal in Hole) if not depth
HoleDepth(op, part, loc, depth) ==
    IF depth # 0 THEN depth
    ELSE IF op = "Hole" THEN 2 * DiagonalLength(part, loc)
    ELSE DiagonalLength(part, loc)

\* hole_start: z of the cylinder's base; it runs from there along (0, 0, -1)
HoleStart(op, part, loc, depth) ==
    IF op = "Hole" /\ depth = 0 THEN HoleDepth(op, part, loc, depth) \div 2 ELSE 0

\* the z interval of the hole's cylinder in the location's frame: <<from, to>>
HoleExtent(op, part, loc, depth) ==
    <<HoleStart(op, part, loc, depth),
      HoleStart(op, part, loc, depth) - HoleDepth(op, part, loc, depth)>>

HoleExtents(op, part, locs, depth) ==
    [i \in 1..Len(locs) |-> HoleExtent(op, part, locs[i], depth)]

\* Hole and CounterBoreHole: one solid per location, depth inferred from the part if not depth
Hole(op, depth, mode) ==
    /\ call = Idle
    /\ current
    /\ IF depth = 0 /\ ~builder.part.some
       THEN Finish(op, <<depth>>, mode, [b |-> builder, err |-> "AttributeError"])
       ELSE FinishBuilt(op, <<depth>>, mode,
              AddToContext(builder, locations, AtEach(HoleSolid, locations), TRUE, mode),
              AtEach(HoleSolid, locations),
              HoleExtents(op, builder.part, locations, depth))

\* CounterSinkHole: new_solids is rebound in the loop, so the last location's solid is left
CounterSinkHole(depth, mode) ==
    /\ call = Idle
    /\ current
    /\ IF depth = 0 /\ ~builder.part.some
       THEN Finish("CounterSinkHole", <<depth>>, mode, [b |-> builder, err |-> "AttributeError"])
       ELSE FinishBuilt("CounterSinkHole", <<depth>>, mode,
              AddToContext(builder, locations,
                           <<Moved(HoleSolid, locations[Len(locations)])>>, TRUE, mode),
              <<Moved(HoleSolid, locations[Len(locations)])>>,
              HoleExtents("CounterSinkHole", builder.part, locations, depth))

\* the part's faces that the full-length extrusion of a face at pos meets, in kernel order
TrimShells(part, pos) ==
    LET cand == {i \in Boundary(part.pts) : i >= pos}
    IN [k \in 1..Cardinality(cand) |->
          CHOOSE i \in cand : Cardinality({j \in cand : j < i}) = k - 1]
\* face_directions.getAngle(plane.zDir) of the shell at boundary i
SurfaceDir(part, i) == IF i \in part.pts THEN 0 ELSE 180
\* SurfaceIndex taking the last of the shells that tie, as a scan with >= / <= would
SurfaceIndexLastOfTies(surface_dirs, until) ==
    LET best(k) == IF until = "NEXT"
                   THEN \A j \in 1..Len(surface_dirs) : surface_dirs[j] <= surface_dirs[k]
                   ELSE \A j \in 1..Len(surface_dirs) : surface_dirs[j] >= surface_dirs[k]
    IN CHOOSE k \in 1..Len(surface_dirs) :
          best(k) /\ \A j \in (k + 1)..Len(surface_dirs) : ~best(j)

\* surface_dirs.index(max(surface_dirs)) / surface_dirs.index(min(surface_dirs))
SurfaceIndex(surface_dirs, until) ==
    LET best(k) == IF until = "NEXT"
                   THEN \A j \in 1..Len(surface_dirs) : surface_dirs[j] <= surface_dirs[k]
                   ELSE \A j \in 1..Len(surface_dirs) : surface_dirs[j] >= surface_dirs[k]
    IN CHOOSE k \in 1..Len(surface_dirs) :
          best(k) /\ \A j \in 1..(k - 1) : ~best(j)
\* Solid.extrudeLinear(f, plane.zDir * max_dimension * -1.0, -taper): the face of the
\* chosen shell extruded back towards the face to extrude
TrimObject(shell) == Solid(Span(1, shell))
\* extruded_face.intersect(trim_object) of the until path; every trim object goes into
\* the trim volume, o.isValid() only decides whether a warning is given
ExtrudeUntil(part, face, until) ==
    LET shells == TrimShells(part, face.pos)
        dirs == [k \in 1..Len(shells) |-> SurfaceDir(part, shells[k])]
        trim_objects == <<TrimObject(shells[SurfaceIndex(dirs, until)])>>
        extruded_face == Span(face.pos, NCells)
    IN Solid(Intersect(extruded_face, <<Solid(UnionPts(trim_objects))>>))

ExtrudeSolids(part, faces, amount, until, both) ==
    Flatten([i \in 1..Len(faces) |->
        [d \in 1..(IF both THEN 2 ELSE 1) |->
            IF amount # 0 THEN ExtrudeLinear(faces[i], amount, IF d = 1 THEN 1 ELSE -1)
            ELSE ExtrudeUntil(part, faces[i], until)]])

\* Extrude.__init__ once its faces are zipped with their planes and its solids merged
ExtrudeEnd(args, mode, zipped, r) ==
    \* warn(...): the until path got to its trim objects and one is not valid
    LET warned == /\ args[2] = 0 /\ zipped # <<>> /\ ~args[5]
                  /\ r.err \notin {"NoFaceToExtrude", "AttributeError", "NameError", "ValueError"}
    IN /\ Bounded(r.b)
       /\ builder' = r.b
       /\ call' = [Called("Extrude", args, mode, r.err)
                     EXCEPT !.ret = IF warned THEN "Warning" ELSE "-"]
       /\ UNCHANGED <<current, locations, sketchVars>>

\* Extrude.__init__; trims_valid: what o.isValid() answers for the trim objects
Extrude(explicit, amount, until, both, trims_valid, mode) ==
    /\ call = Idle
    /\ current
    /\ LET faces == IF explicit THEN AtEach(Face(1), locations) ELSE builder.pending_faces
           face_planes == IF explicit THEN [i \in 1..Len(locations) |-> PlaneOf(locations[i])]
                          ELSE builder.pending_face_planes
           b1 == IF explicit THEN builder
                 ELSE [builder EXCEPT !.pending_faces = <<>>, !.pending_face_planes = <<>>]
           zipped == SubSeq(faces, 1, IF Len(faces) <= Len(face_planes)
                                      THEN Len(faces) ELSE Len(face_planes))
           r == IF ~explicit /\ builder.pending_faces = <<>>
                THEN [b |-> builder, err |-> "NoFaceToExtrude"]
                ELSE IF until # "None" /\ ~builder.part.some
                THEN [b |-> b1, err |-> "AttributeError"]
                ELSE IF amount = 0 /\ until = "None"
                THEN [b |-> b1, err |-> "NameError"]
                ELSE IF amount = 0 /\ \E i \in 1..Len(zipped) :
                                         TrimShells(builder.part, zipped[i].pos) = <<>>
                THEN [b |-> b1, err |-> "ValueError"]
                ELSE AddToContext(b1, locations,
                                  ExtrudeSolids(builder.part, zipped, amount, until, both),
                                  TRUE, mode)
       IN ExtrudeEnd(<<explicit, amount, until, both, trims_valid>>, mode, zipped, r)

\* Loft.__init__; what the kernel answers: valid, new_solid.isValid() of the direct loft;
\* recovered, isValid() of the solid made from the loft's faces plus the faces lofted;
\* recovered_bare, isValid() of the solid made from the loft's faces alone
Loft(explicit, valid, recovered, recovered_bare, mode) ==
    /\ call = Idle
    /\ current
    /\ LET sections == IF explicit THEN <<Face(1), Face(NCells)>> ELSE <<>>
           lofted == IF explicit THEN sections ELSE builder.pending_faces
           b1 == IF explicit THEN builder ELSE [builder EXCEPT !.pending_faces = <<>>]
           \* Shell.makeShell(new_solid.Faces() + list(sections)): sections, not the faces lofted
           rebuilt_valid == IF sections = lofted THEN recovered ELSE recovered_bare
       IN Finish("Loft", <<explicit, valid, recovered, recovered_bare>>, mode,
            IF ~valid /\ ~rebuilt_valid
            THEN [b |-> b1, err |-> "LoftFailed"]
            ELSE AddToContext(b1, locations, <<MakeLoft(lofted)>>, TRUE, mode))

\* Revolve.__init__
Revolve(explicit, axis_ok, mode) ==
    /\ call = Idle
    /\ current
    /\ LET profiles == IF explicit THEN <<Face(1)>> ELSE builder.pending_faces
           b1 == IF explicit THEN builder ELSE [builder EXCEPT !.pending_faces = <<>>]
       IN Finish("Revolve", <<explicit, axis_ok>>, mode,
            IF profiles # <<>> /\ ~axis_ok
            THEN [b |-> b1, err |-> "InvalidAxis"]
            ELSE AddToContext(b1, locations,
                    Flatten([i \in 1..Len(profiles) |->
                                AtEach(RevolveSolid(profiles[i]), locations)]),
                    TRUE, mode))

\* Section.__init__
Section(mode) ==
    /\ call = Idle
    /\ current
    /\ Finish("Section", <<>>, mode,
            IF ~builder.part.some
            THEN [b |-> builder, err |-> "AttributeError"]
            ELSE AddToContext(builder, locations, <<Face(1)>>, FALSE, mode))

\* Sweep.__init__
Sweep(explicit, path_given, multisection, mode) ==
    /\ call = Idle
    /\ current
    /\ LET section_list == IF explicit THEN <<Face(1)>> ELSE builder.pending_faces
           b1 == IF explicit THEN builder ELSE [builder EXCEPT !.pending_faces = <<>>]
           new_solid == IF multisection THEN MakeLoft(section_list)
                        ELSE SweepSolid(section_list[Len(section_list)])
       IN Finish("Sweep", <<explicit, path_given, multisection>>, mode,
            IF ~multisection /\ section_list = <<>>
            THEN [b |-> b1, err |-> "NameError"]
            ELSE AddToContext(b1, locations, AtEach(new_solid, locations), TRUE, mode))

Operations == {"primitive", "Hole", "CounterBoreHole", "CounterSinkHole",
               "Extrude", "Loft", "Revolve", "Section", "Sweep"}

\* BuildPart._get_context: the current builder, or None
GetContext ==
    /\ call = Idle
    /\ call' = Returned("BuildPart._get_context", IF current THEN "builder" ELSE "None")
    /\ UNCHANGED <<partVars, sketchVars>>

\* ---------------------------------------------------------- BuildSketch
SketchMode == {"ADDITION", "SUBTRACTION", "INTERSECTION", "CONSTRUCTION", "PRIVATE"}
\* the mode values callers pass: the sketch modes and one that is none of them
SketchModeInputs == SketchMode \cup {"REPLACE"}

\* BuildSketch.__init__
NewBuildSketch(id, mode) ==
    [kind |-> "BuildSketch", id |-> id, surface |-> {}, pending_edges |-> <<>>,
     locations |-> Bootstrap, mode |-> mode]
\* a 3-D builder on the stack
NewBuild3D(id) ==
    [kind |-> "Build3D", id |-> id, surface |-> {}, pending_edges |-> <<>>,
     locations |-> Bootstrap, mode |-> "ADDITION"]

Top(stack) == stack[Len(stack)]
\* Pop taking the outermost builder off, as pop(0) would
PopOutermost(stack) == SubSeq(stack, 2, Len(stack))

\* context_stack.pop()
Pop(stack) == SubSeq(stack, 1, Len(stack) - 1)
SetTop(stack, top) == [stack EXCEPT ![Len(stack)] = top]

\* a sketch face covering cell 1
SketchFace == [kind |-> "Face", pos |-> 1, pts |-> {1}, parts |-> <<>>]

\* BuildSketch.add_to_context: returns the stack and the error raised, if any
SketchAddToContext(stack, objects, mode) ==
    IF mode = "PRIVATE" \/ stack = <<>> THEN [stack |-> stack, err |-> "none"]
    ELSE IF mode \notin SketchMode THEN [stack |-> stack, err |-> "InvalidMode"]
    ELSE
      LET top == Top(stack)
          new_faces == OfKind(objects, "Face")
          new_edges == OfKind(objects, "Edge")
          surface == CASE mode = "ADDITION" -> Fuse(top.surface, new_faces)
                       [] mode = "SUBTRACTION" -> Cut(top.surface, new_faces)
                       [] mode = "INTERSECTION" -> Intersect(top.surface, new_faces)
                       [] OTHER -> top.surface
      IN [stack |-> SetTop(stack, [top EXCEPT !.surface = surface,
                                              !.pending_edges = @ \o new_edges]),
          err |-> "none"]

\* for face in new_faces: BuildSketch.add_to_context(face, mode=mode)
RECURSIVE AddEach(_, _, _)
AddEach(stack, faces, mode) ==
    IF faces = <<>> THEN [stack |-> stack, err |-> "none"]
    ELSE LET r == SketchAddToContext(stack, <<Head(faces)>>, mode)
         IN IF r.err # "none" THEN r ELSE AddEach(r.stack, Tail(faces), mode)

SketchBounded(stack) ==
    \A i \in 1..Len(stack) : Len(stack[i].pending_edges) <= MaxPending

\* a sketch call ends: r is the (stack, error) pair it leaves behind
SketchFinish(op, args, mode, r) ==
    /\ SketchBounded(r.stack)
    /\ context_stack' = r.stack
    /\ call' = Called(op, args, mode, r.err)
    /\ UNCHANGED <<partVars, scopes>>

OnSketch == IF context_stack = <<>> THEN TRUE ELSE Top(context_stack).kind = "BuildSketch"

\* BuildSketch.__enter__ on a new BuildSketch(mode)
EnterSketch(mode) ==
    /\ call = Idle
    /\ context_stack' = Append(context_stack, NewBuildSketch(Len(scopes) + 1, mode))
    /\ scopes' = Append(scopes, Len(scopes) + 1)
    /\ UNCHANGED <<partVars, call>>

\* BuildSketch.__exit__ of the innermost open scope, left normally or through an exception
ExitSketch(exception) ==
    /\ call = Idle
    /\ scopes # <<>>
    /\ context_stack # <<>>
    /\ Top(context_stack).kind = "BuildSketch"
    /\ context_stack' = Pop(context_stack)
    /\ scopes' = SubSeq(scopes, 1, Len(scopes) - 1)
    /\ call' = Called("BuildSketch.__exit__", <<exception>>, Top(context_stack).mode,
                      IF Pop(context_stack) = <<>> THEN "none"
                      ELSE IF Top(Pop(context_stack)).kind = "Build3D" THEN "AttributeError"
                      ELSE "none")
    /\ UNCHANGED partVars

\* a 3-D builder's scope is entered
Enter3D ==
    /\ call = Idle
    /\ context_stack' = Append(context_stack, NewBuild3D(Len(scopes) + 1))
    /\ scopes' = Append(scopes, Len(scopes) + 1)
    /\ UNCHANGED <<partVars, call>>

\* a 3-D builder's scope is left
Exit3D ==
    /\ call = Idle
    /\ scopes # <<>>
    /\ context_stack # <<>>
    /\ Top(context_stack).kind = "Build3D"
    /\ context_stack' = Pop(context_stack)
    /\ scopes' = SubSeq(scopes, 1, Len(scopes) - 1)
    /\ UNCHANGED <<partVars, call>>

\* SketchGetContext answering None on an empty stack, as a .get(None) lookup would
SketchGetContextOrNone ==
    /\ call = Idle
    /\ call' = Returned("BuildSketch.get_context",
                        IF context_stack = <<>> THEN "None" ELSE "builder")
    /\ UNCHANGED <<partVars, sketchVars>>

\* BuildSketch.get_context
SketchGetContext ==
    /\ call = Idle
    /\ call' = IF context_stack = <<>>
               THEN Called("BuildSketch.get_context", <<>>, "ADDITION", "IndexError")
               ELSE Returned("BuildSketch.get_context", "builder")
    /\ UNCHANGED <<partVars, sketchVars>>

\* a direct call of BuildSketch.add_to_context
SketchMerge(objects, mode) ==
    /\ call = Idle
    /\ OnSketch
    /\ SketchFinish("add_to_context", <<objects>>, mode, SketchAddToContext(context_stack, objects, mode))

\* PushPoints.__init__
PushPoints(pts) ==
    /\ call = Idle
    /\ OnSketch
    /\ SketchFinish("PushPoints", <<pts>>, "ADDITION",
          IF context_stack = <<>> THEN [stack |-> context_stack, err |-> "IndexError"]
          ELSE [stack |-> SetTop(context_stack, [Top(context_stack) EXCEPT !.locations = pts]),
                err |-> "none"])

\* SketchObject with the closing assignment to locations left out
SketchObjectNoReset(op, mode) ==
    /\ call = Idle
    /\ OnSketch
    /\ SketchFinish(op, <<>>, mode,
          IF context_stack = <<>> THEN [stack |-> context_stack, err |-> "IndexError"]
          ELSE AddEach(context_stack, AtEach(SketchFace, Top(context_stack).locations), mode))

\* Rect.__init__, Circle.__init__, Text.__init__
SketchObject(op, mode) ==
    /\ call = Idle
    /\ OnSketch
    /\ SketchFinish(op, <<>>, mode,
          IF context_stack = <<>> THEN [stack |-> context_stack, err |-> "IndexError"]
          ELSE LET r == AddEach(context_stack,
                                AtEach(SketchFace, Top(context_stack).locations), mode)
               IN IF r.err # "none" THEN r
                  ELSE [stack |-> SetTop(r.stack, [Top(r.stack) EXCEPT !.locations = Bootstrap]),
                        err |-> "none"])

\* BuildFace.__init__, BuildHull.__init__: mode is passed positionally, so it lands in *objects
SketchBuild(op, mode) ==
    /\ call = Idle
    /\ OnSketch
    /\ SketchFinish(op, <<>>, mode,
          IF context_stack = <<>> THEN [stack |-> context_stack, err |-> "IndexError"]
          ELSE LET r == SketchAddToContext(context_stack, <<SketchFace>>, "ADDITION")
               IN [stack |-> SetTop(r.stack, [Top(r.stack) EXCEPT !.pending_edges = <<>>]),
                   err |-> "none"])

SketchInputs == {<<Edge(1)>>, <<SketchFace>>, <<Edge(1), SketchFace>>}
PointLists == LocationLists \cup {<<>>}

\* ------------------------------------------------------- specifications
\* what an operation of the part world does, whichever it is
PartOperation ==
    \/ \E mode \in Mode : Primitive(mode)
    \/ \E op \in {"Hole", "CounterBoreHole"}, d \in Depths, mode \in Mode : Hole(op, d, mode)
    \/ \E d \in Depths, mode \in Mode : CounterSinkHole(d, mode)
    \/ \E e \in BOOLEAN, amount \in {0, 1}, until \in {"None", "NEXT", "LAST"}, mode \in Mode :
          \E both \in (IF amount # 0 /\ until = "None" THEN BOOLEAN ELSE {FALSE}),
             tv \in (IF amount # 0 \/ until = "None" THEN {TRUE} ELSE BOOLEAN) :
              Extrude(e, amount, until, both, tv, mode)
    \/ \E e, v \in BOOLEAN, mode \in Mode :
          \E r \in (IF v THEN {TRUE} ELSE BOOLEAN) :
              \E rb \in (IF e \/ v THEN {r} ELSE BOOLEAN) : Loft(e, v, r, rb, mode)
    \/ \E e, ok \in BOOLEAN, mode \in Mode : Revolve(e, ok, mode)
    \/ \E mode \in Mode : Section(mode)
    \/ \E e, pg, m \in BOOLEAN, mode \in Mode : Sweep(e, pg, m, mode)

\* what a call of the sketch world does, whichever it is
SketchOperation ==
    \/ SketchGetContext
    \/ \E objects \in SketchInputs, mode \in SketchModeInputs : SketchMerge(objects, mode)
    \/ \E pts \in PointLists : PushPoints(pts)
    \/ \E op \in {"Rect", "Circle", "Text"}, mode \in SketchModeInputs : SketchObject(op, mode)
    \/ \E op \in {"BuildFace", "BuildHull"}, mode \in SketchModeInputs : SketchBuild(op, mode)

\* one construction task at a time: a part builder with its operations, or one sketch
\* scope with its objects; outside any scope, calls of either kind
Next ==
    \/ Return
    \/ context_stack = <<>> /\ EnterPart
    \/ ExitPart
    \/ context_stack = <<>> /\ GetContext
    \/ context_stack = <<>> /\ \E ls \in LocationLists : SetLocations(ls)
    \/ \E objects \in {<<Edge(1)>>, <<Face(1)>>, <<Edge(1), Face(1)>>}, mode \in Mode :
          Merge(objects, TRUE, mode)
    \/ context_stack = <<>> /\ \E op \in Operations, mode \in Mode : ValidateInputs(op, mode)
    \/ PartOperation
    \/ ~current /\ context_stack = <<>> /\ \E mode \in SketchMode : EnterSketch(mode)
    \/ \E x \in BOOLEAN : ExitSketch(x)
    \/ ~current /\ SketchOperation

Spec == Init /\ [][Next]_vars

\* the merge alone, over every kind of input it accepts or rejects
NextMerge ==
    \/ context_stack = <<>> /\ EnterPart
    \/ ExitPart
    \/ Return
    \/ \E ls \in LocationLists : SetLocations(ls)
    \/ \E in \in MergeInputs, mode \in ModeInputs : Merge(in[1], in[2], mode)
    \/ \E S \in SolidShapes : AddThenSubtract(S)
    \/ ~current /\ context_stack = <<>> /\ \E mode \in SketchMode : EnterSketch(mode)
    \/ \E x \in BOOLEAN : ExitSketch(x)
    \/ ~current /\ \E objects \in SketchInputs, mode \in SketchModeInputs :
                      SketchMerge(objects, mode)

SpecMerge == Init /\ [][NextMerge]_vars

\* nested builder scopes, to MaxDepth open at once
MaxDepth == 3
NextStack ==
    \/ Return
    \/ SketchGetContext
    \/ \E mode \in SketchMode : Len(scopes) < MaxDepth /\ EnterSketch(mode)
    \/ Len(scopes) < MaxDepth /\ Enter3D
    \/ \E x \in BOOLEAN : ExitSketch(x)
    \/ Exit3D
    \/ SketchMerge(<<Edge(1)>>, "ADDITION")

SpecStack == Init /\ [][NextStack]_vars

\* the choice of the stopping shell alone, over every list of up to MaxShells angles
MaxShells == 3
\* getAngle results, in degrees
Angles == {0, 45, 90, 180}
AngleLists == UNION {[1..n -> Angles] : n \in 1..MaxShells}
\* the until-path of Extrude reaches the choice with the angles surface_dirs
SelectSurface(surface_dirs, until) ==
    /\ call = Idle
    /\ call' = [Called("surface_index", <<surface_dirs, until>>, "ADD", "none")
                  EXCEPT !.ret = SurfaceIndex(surface_dirs, until)]
    /\ UNCHANGED <<partVars, sketchVars>>
NextSelect ==
    \/ Return
    \/ \E surface_dirs \in AngleLists, until \in {"NEXT", "LAST"} :
          SelectSurface(surface_dirs, until)

SpecSelect == Init /\ [][NextSelect]_vars

\* ================================================================ claims
\* what a claim says of an input, read off the objects themselves
HoldsKind(o, k) ==
    o.kind = k \/ (o.kind = "Compound" /\ \E j \in 1..Len(o.parts) : o.parts[j].kind = k)
Partitionable(objects) ==
    \A i \in 1..Len(objects) : objects[i].kind \in {"Edge", "Face", "Solid", "Compound"}
\* the partitioned input holds at least one solid (a face counts when faces are not pending)
ContainsSolid(objects, faces_to_pending) ==
    /\ Partitionable(objects)
    /\ \E i \in 1..Len(objects) :
          HoldsKind(objects[i], "Solid") \/ (~faces_to_pending /\ HoldsKind(objects[i], "Face"))
MissingPart == {"NothingToSubtractFrom", "NothingToIntersectWith"}
IsMerge(c) == c.op = "merge"

\* C1: a merge whose partitioned input holds a solid, called with no accumulated solid,
\* fails with NothingToSubtractFrom in mode Subtract and NothingToIntersectWith in mode
\* Intersect; with an accumulated solid it never fails in either way.
C1_MissingPartFails ==
    [][IsMerge(call') =>
         /\ (~builder.part.some /\ ContainsSolid(call'.args[1], call'.args[2])) =>
               /\ call'.mode = "SUBTRACT" => call'.err = "NothingToSubtractFrom"
               /\ call'.mode = "INTERSECT" => call'.err = "NothingToIntersectWith"
         /\ builder.part.some => call'.err \notin MissingPart]_vars
\* a Subtract of a section face (faces not pending) failed on a builder with no part
C1_Witness ==
    /\ IsMerge(call) /\ call.mode = "SUBTRACT" /\ call.err = "NothingToSubtractFrom"
    /\ ~builder.part.some
    /\ ~call.args[2] /\ call.args[1][1].kind = "Face"

\* C2: a merge in mode Private changes no builder state: the accumulated solid, the
\* pending faces and edges with their planes and the four diff lists stay as they were
\* (and a Private BuildSketch.add_to_context leaves the sketch builders as they were).
C2_PrivateChangesNothing ==
    [][/\ (IsMerge(call') /\ call'.mode = "PRIVATE") =>
              (builder' = builder /\ call'.err = "none")
       /\ (call'.op = "add_to_context" /\ call'.mode = "PRIVATE") =>
              (context_stack' = context_stack /\ call'.err = "none")]_vars
\* a Private merge of a solid and sketch geometry on a builder that has a part, a
\* non-empty diff and pending geometry
C2_Witness ==
    /\ IsMerge(call) /\ call.mode = "PRIVATE"
    /\ ContainsSolid(call.args[1], call.args[2])
    /\ \E i \in 1..Len(call.args[1]) : call.args[1][i].kind = "Edge"
    /\ builder.part.some /\ builder.last_solids # {}
    /\ builder.pending_edges # <<>> /\ builder.pending_faces # <<>>

DiffIsPostMinusPre(pre, b) ==
    /\ b.last_vertices = Vertices(b.part) \ Vertices(pre.part)
    /\ b.last_edges = Edges(b.part) \ Edges(pre.part)
    /\ b.last_faces = Faces(b.part) \ Faces(pre.part)
    /\ b.last_solids = Solids(b.part) \ Solids(pre.part)
DiffUnchanged(pre, b) ==
    /\ b.last_vertices = pre.last_vertices
    /\ b.last_edges = pre.last_edges
    /\ b.last_faces = pre.last_faces
    /\ b.last_solids = pre.last_solids
\* the errors raised before the diff is computed
BeforeDiff == MissingPart \cup {"UnsupportedType"}

\* C3 as stated: after every merge call, whatever its mode and inputs, each of the four
\* diff sets is the topology of the accumulated solid after the call minus before it.
C3_DiffAfterEveryMerge ==
    [][IsMerge(call') => DiffIsPostMinusPre(builder, builder')]_vars
\* C3 amended: after every merge call in a mode other than Private that gets past the
\* input partition and the boolean step, each of the four diff sets is the topology
\* after the call minus the topology before it; a Private merge and a merge that fails
\* in the partition or the boolean step leave the four diff sets as they were.
C3_DiffAfterIntegration ==
    [][IsMerge(call') =>
         IF call'.mode # "PRIVATE" /\ call'.err \notin BeforeDiff
         THEN DiffIsPostMinusPre(builder, builder')
         ELSE DiffUnchanged(builder, builder')]_vars
\* a merge changed a part that existed: the diff is not the whole topology
C3_Witness ==
    /\ IsMerge(call) /\ call.mode = "ADD" /\ call.err = "none"
    /\ builder.last_faces # {} /\ builder.last_faces # Faces(builder.part)
    /\ builder.last_solids # {}

\* C4 as stated: in every reachable builder state the pending faces are as many as the
\* pending face planes, and the pending edges as many as the pending edge planes.
C4_PendingPaired ==
    /\ Len(builder.pending_faces) = Len(builder.pending_face_planes)
    /\ Len(builder.pending_edges) = Len(builder.pending_edge_planes)

ConsumesFaces == {"Extrude", "Loft", "Revolve", "Sweep"}
\* the call ran in a builder and was given no explicit faces / no explicit path
TookPendingFaces(c) ==
    IF c.op \in ConsumesFaces /\ c.err # "NoActiveContext" THEN ~c.args[1] ELSE FALSE
TookPendingEdges(c) ==
    IF c.op = "Sweep" /\ c.err # "NoActiveContext" THEN ~c.args[2] ELSE FALSE

\* C5 as stated: after Extrude, Loft, Revolve or Sweep called without explicit faces the
\* pending faces and their planes are empty, and after Sweep called without an explicit
\* path the pending edges and their planes are empty.
C5_ConsumedPendingCleared ==
    /\ TookPendingFaces(call) =>
          (builder.pending_faces = <<>> /\ builder.pending_face_planes = <<>>)
    /\ TookPendingEdges(call) =>
          (builder.pending_edges = <<>> /\ builder.pending_edge_planes = <<>>)

PartReaders == {"primitive", "Hole", "CounterBoreHole", "CounterSinkHole", "Revolve", "Sweep"}
SketchObjects == {"Rect", "Circle", "Text"}
\* the call is one of the part operations that read the active placement set
ReadsPlacement(c) ==
    \/ c.op \in PartReaders
    \/ IF c.op = "Extrude" /\ c.err # "NoActiveContext" THEN c.args[1] ELSE FALSE

\* C6 as stated: after any primitive or operation that reads the active placement set
\* returns, the active placement set is the bootstrap set of one identity placement.
C6_PlacementResetAfterEveryReader ==
    /\ (ReadsPlacement(call) /\ call.err = "none") => locations = Bootstrap
    /\ (call.op \in SketchObjects /\ call.err = "none") =>
          Top(context_stack).locations = Bootstrap
\* C6 amended: after a sketch object (Rect, Circle, Text) returns, the placement set of
\* the sketch builder is the bootstrap set of one identity placement; a part primitive or
\* operation (Box, Cone, Cylinder, Sphere, Torus, Wedge, Hole, CounterBoreHole,
\* CounterSinkHole, Extrude, Revolve, Sweep) leaves the active placement set as it
\* found it, so the following call sees the same set.
C6_PlacementAfterOperation ==
    [][/\ (call'.op \in SketchObjects /\ call'.err = "none") =>
              Top(context_stack').locations = Bootstrap
       /\ ReadsPlacement(call') => locations' = locations]_vars
\* a sketch object placed at two installed points returned and left the bootstrap set
C6_Witness ==
    /\ call.op = "Rect" /\ call.mode = "ADDITION" /\ call.err = "none"
    /\ context_stack # <<>>
    /\ Top(context_stack).surface = Cells
    /\ Top(context_stack).locations = Bootstrap

SketchCalls == SketchObjects \cup {"PushPoints", "BuildFace", "BuildHull"}
PartUntouched == builder' = builder /\ locations' = locations /\ current' = current

\* C7 as stated: looking up the current builder when no builder scope is open fails with
\* NoActiveContext instead of returning a value, and every operation that needs the
\* current builder fails too without changing any state.
C7_LookupFailsWithoutScope ==
    [][/\ (call'.op = "BuildPart._get_context" /\ ~current) =>
              call'.err = "NoActiveContext"
       /\ (call'.op = "BuildSketch.get_context" /\ context_stack = <<>>) =>
              call'.err # "none"
       /\ (call'.op \in Operations /\ ~current) =>
              (call'.err = "NoActiveContext" /\ PartUntouched)
       /\ (call'.op \in SketchCalls /\ context_stack = <<>>) =>
              (call'.err # "none" /\ context_stack' = context_stack)]_vars
\* C7 amended: with no builder scope open, BuildSketch.get_context fails (the index
\* error of the empty stack) while BuildPart._get_context returns None instead of
\* failing; every part operation then fails with NoActiveContext when it validates its
\* inputs, and every sketch call that needs the builder (Rect, Circle, Text, PushPoints,
\* BuildFace, BuildHull) fails on its lookup, all without changing any state.
C7_WithoutScope ==
    [][/\ (call'.op = "BuildPart._get_context" /\ ~current) =>
              (call'.err = "none" /\ call'.ret = "None" /\ PartUntouched)
       /\ (call'.op = "BuildSketch.get_context" /\ context_stack = <<>>) =>
              (call'.err = "IndexError" /\ context_stack' = context_stack)
       /\ (call'.op \in Operations /\ ~current) =>
              (call'.err = "NoActiveContext" /\ PartUntouched)
       /\ (call'.op \in SketchCalls /\ context_stack = <<>>) =>
              (call'.err = "IndexError" /\ context_stack' = context_stack)]_vars
\* the sketch lookup was made with no scope open, and failed
C7_Witness ==
    /\ call.op = "BuildSketch.get_context" /\ call.err = "IndexError"
    /\ context_stack = <<>> /\ ~current

\* C8: for any properly nested sequence of scope entries and exits, also exits through
\* an exception, the stack holds exactly the builders of the open scopes in the order
\* they were entered: its depth is the number of open scopes, an exit removes the
\* builder entered last, and the stack is empty when no scope is open.
C8_StackIsOpenScopes ==
    /\ Len(context_stack) = Len(scopes)
    /\ \A i \in 1..Len(scopes) : context_stack[i].id = scopes[i]
    /\ scopes = <<>> => context_stack = <<>>
\* a sketch scope nested in two others was left through an exception
C8_Witness ==
    /\ call.op = "BuildSketch.__exit__" /\ call.args = <<TRUE>>
    /\ Len(scopes) = 2 /\ Len(context_stack) = 2

AllSolids(objects) ==
    objects # <<>> /\ \A i \in 1..Len(objects) : objects[i].kind = "Solid"
PointSets(objects) == {objects[i].pts : i \in 1..Len(objects)}

\* C9: for an accumulated solid P and new solids S1..Sn (n >= 1) as point sets, a merge
\* that returns leaves the union of P and the Si under Add (the union of the Si when
\* there is no P), P minus the union of the Si under Subtract, the points of P that lie
\* in every Si under Intersect, and the union of the Si under Replace.
C9_PointSetSemantics ==
    [][(IsMerge(call') /\ AllSolids(call'.args[1]) /\ call'.err = "none") =>
         LET S == PointSets(call'.args[1])
             P == IF builder.part.some THEN builder.part.pts ELSE {}
         IN CASE call'.mode = "ADD" -> builder'.part = Part(P \cup UNION S)
              [] call'.mode = "SUBTRACT" -> builder'.part = Part(P \ UNION S)
              [] call'.mode = "INTERSECT" ->
                    builder'.part = Part({c \in P : \A s \in S : c \in s})
              [] call'.mode = "REPLACE" -> builder'.part = Part(UNION S)
              [] OTHER -> TRUE]_vars
\* two disjoint solids were added to a builder with no part and fused into one solid
C9_Witness ==
    /\ IsMerge(call) /\ call.mode = "ADD" /\ call.err = "none"
    /\ call.args[1] = <<Solid({1}), Solid({2})>>
    /\ builder.part = Part({1, 2})
    /\ builder.last_solids = {{1, 2}}
    /\ Cardinality(builder.last_faces) = 2

Surfaces(stack) == [i \in 1..Len(stack) |-> stack[i].surface]

\* C10: a merge in mode Construction never changes the accumulated solid, whatever
\* solids it is given and whether or not an accumulated solid exists, and never fails
\* for lack of an accumulated solid (nor does a Construction add_to_context change a
\* sketch surface).
C10_ConstructionKeepsPart ==
    [][/\ (IsMerge(call') /\ call'.mode = "CONSTRUCTION") =>
              (builder'.part = builder.part /\ call'.err \notin MissingPart)
       /\ (call'.op = "add_to_context" /\ call'.mode = "CONSTRUCTION") =>
              (Surfaces(context_stack') = Surfaces(context_stack) /\ call'.err = "none")]_vars
\* a Construction merge of a solid returned on a builder that still has no part
C10_Witness ==
    /\ IsMerge(call) /\ call.mode = "CONSTRUCTION" /\ call.err = "none"
    /\ AllSolids(call.args[1])
    /\ ~builder.part.some

\* C11 as stated: a merge called with a mode value that is none of Add, Subtract,
\* Intersect, Replace, Construction, Private fails with InvalidMode and leaves the
\* builder state unchanged.
C11_InvalidModeFails ==
    [][(IsMerge(call') /\ call'.mode \notin Mode) =>
          (call'.err = "InvalidMode" /\ builder' = builder)]_vars

\* C12 as stated: a merge of a solid S in mode Add followed immediately by a merge of
\* the same S in mode Subtract leaves the accumulated solid with the point set it had
\* before the Add, also when S overlaps the prior accumulated solid and when there was
\* no accumulated solid.
C12_AddSubtractRestores ==
    [][call'.op = "add_then_subtract" => builder'.part.pts = builder.part.pts]_vars
\* C12 amended: Add of S followed immediately by Subtract of the same S leaves the
\* accumulated solid with the point set it had before the Add minus the points of S:
\* the prior point set itself when S does not overlap it (and the empty set when no
\* accumulated solid existed), the prior point set without the overlap otherwise.
C12_AddSubtractCutsOverlap ==
    [][call'.op = "add_then_subtract" =>
          /\ call'.err = "none"
          /\ builder'.part.pts = builder.part.pts \ call'.args[1].pts
          /\ (call'.args[1].pts \cap builder.part.pts = {}) =>
                builder'.part.pts = builder.part.pts]_vars
\* a solid was added beside the part that was there and subtracted again: the part is back
C12_Witness ==
    /\ call.op = "add_then_subtract" /\ call.err = "none"
    /\ call.args[1] = Solid({2})
    /\ builder.part = Part({1})
    /\ builder.last_solids = {{1}}

\* every object is an edge or a face, or a compound of edges and faces
OnlyEdgesAndFaces(objects) ==
    \A i \in 1..Len(objects) :
        \/ objects[i].kind \in {"Edge", "Face"}
        \/ /\ objects[i].kind = "Compound"
           /\ \A j \in 1..Len(objects[i].parts) : objects[i].parts[j].kind \in {"Edge", "Face"}

\* C13: a merge whose partitioned input holds no solid (edges and faces with
\* faces_to_pending true, or nothing) leaves the accumulated solid unchanged in every
\* mode but Private, leaves the four diffs empty, and does not fail, also in mode
\* Subtract or Intersect with no accumulated solid.
C13_NoSolidKeepsPart ==
    [][(/\ IsMerge(call') /\ call'.mode # "PRIVATE"
        /\ OnlyEdgesAndFaces(call'.args[1]) /\ call'.args[2]) =>
          /\ call'.err = "none"
          /\ builder'.part = builder.part
          /\ builder'.last_vertices = {} /\ builder'.last_edges = {}
          /\ builder'.last_faces = {} /\ builder'.last_solids = {}]_vars
\* an edge and a face were merged in mode Intersect into a builder with no part
C13_Witness ==
    /\ IsMerge(call) /\ call.mode = "INTERSECT" /\ call.err = "none"
    /\ call.args = <<(<<Edge(1), Face(1)>>), TRUE>>
    /\ ~builder.part.some
    /\ builder.pending_edges # <<>> /\ builder.pending_faces # <<>>

Builders == {"primitive", "Hole", "CounterBoreHole", "CounterSinkHole"}
\* the operation got as far as building its solids
Built(c) == c.op \in Builders /\ c.err \notin {"NoActiveContext", "AttributeError"}
OneAtEach(locs) == [i \in 1..Len(locs) |-> Moved(Solid({1}), locs[i])]

\* C14 as stated: every primitive and hole operation called with n >= 1 active
\* placements hands exactly n solids to the merge, one located at each active placement
\* in order.
C14_OneSolidPerPlacement ==
    [][Built(call') => call'.ret.solids = OneAtEach(locations)]_vars

Holes == {"Hole", "CounterBoreHole", "CounterSinkHole"}
\* the length of the bounding interval of the part together with the unit box at loc
ProbeDiagonal(P, loc) ==
    LET Q == P \cup {1 + loc}
    IN Cardinality({c \in Cells : (\E a \in Q : a <= c) /\ (\E b \in Q : c <= b)})

Below(stack) == SubSeq(stack, 1, Len(stack) - 1)

\* C15 as stated: on exit of a sketch builder scope, after the pop, if the stack is not
\* empty and the new top is a 3-D builder, every edge accumulated by the exited sketch
\* builder is appended to the new top builder's pending edges; otherwise no builder's
\* state changes.
C15_ExitFoldsEdges ==
    [][call'.op = "BuildSketch.__exit__" =>
          /\ call'.err = "none"
          /\ Len(context_stack') = Len(context_stack) - 1
          /\ IF Len(context_stack) > 1
             THEN LET exited == context_stack[Len(context_stack)]
                      parent == context_stack[Len(context_stack) - 1]
                  IN IF parent.kind = "Build3D"
                     THEN context_stack'[Len(context_stack')].pending_edges
                             = parent.pending_edges \o exited.pending_edges
                     ELSE context_stack' = Below(context_stack)
             ELSE context_stack' = <<>>]_vars

\* C16: given the angles of the candidate shells, the stopping shell is the one with
\* the maximum angle when until is Next and the one with the minimum angle when until
\* is Last; of several shells that tie, the first in shell order is chosen.
C16_StoppingShell ==
    call.op = "surface_index" =>
        LET surface_dirs == call.args[1]
            k == call.ret
        IN /\ k \in 1..Len(surface_dirs)
           /\ call.args[2] = "NEXT" =>
                 \A j \in 1..Len(surface_dirs) : surface_dirs[j] <= surface_dirs[k]
           /\ call.args[2] = "LAST" =>
                 \A j \in 1..Len(surface_dirs) : surface_dirs[j] >= surface_dirs[k]
           /\ \A j \in 1..(k - 1) : surface_dirs[j] # surface_dirs[k]
\* two shells tie for the maximum angle behind a smaller one: the second shell is chosen
C16_Witness ==
    /\ call.op = "surface_index"
    /\ call.args = <<(<<90, 180, 180>>), "NEXT">>
    /\ call.ret = 2

\* the until-path of Extrude ran to its end with trim objects the kernel calls invalid
InvalidTrims(c) ==
    IF c.op = "Extrude" /\ c.err = "none" THEN c.args[2] = 0 /\ ~c.args[5] ELSE FALSE

\* C17 as stated: in the until-path of Extrude every trim extrusion the kernel reports
\* invalid gives a warning and is left out of the trim volume that bounds the
\* extrusion, and the operation completes: with every trim extrusion invalid the trim
\* volume is empty, and so is what a Replace extrusion leaves as accumulated solid.
C17_InvalidTrimsExcluded ==
    [][InvalidTrims(call') =>
          /\ call'.ret = "Warning"
          /\ call'.mode = "REPLACE" => builder'.part.pts = {}]_vars

\* C18 as stated: Loft merges a solid only if the direct loft is valid or, failing
\* that, the solid rebuilt from the loft's faces plus the original section faces (the
\* pending faces when no sections were passed) is valid; when both are invalid Loft
\* fails with LoftFailed and performs no merge; otherwise it does not fail so.
C18_LoftRecovery ==
    [][(call'.op = "Loft" /\ call'.err # "NoActiveContext") =>
          LET valid == call'.args[2]
              recovered == call'.args[3]
          IN /\ (call'.err = "LoftFailed") <=> (~valid /\ ~recovered)
             /\ call'.err = "LoftFailed" =>
                   (builder'.part = builder.part /\ DiffUnchanged(builder, builder'))]_vars

\* how many objects of kind k the input holds once its compounds are taken apart
CountOf(objects, k) ==
    Cardinality({i \in 1..Len(objects) : objects[i].kind = k})
    + Cardinality({ij \in (1..Len(objects)) \X (1..3) :
                      /\ objects[ij[1]].kind = "Compound"
                      /\ ij[2] <= Len(objects[ij[1]].parts)
                      /\ objects[ij[1]].parts[ij[2]].kind = k})
\* the planes from position from + 1 on are those of the placements locs, in turn
PairedInTurn(planes, from, locs) ==
    \A j \in 1..(Len(planes) - from) :
        planes[from + j] = PlaneOf(locs[((j - 1) % Len(locs)) + 1])

\* C20 as stated: a merge in a mode other than Private that gets to its pending step,
\* given e edges and f faces (compounds taken apart) while n placements are active,
\* appends each edge and each face paired with the plane of its placement, whether or
\* not solids were present: with faces_to_pending the pending edges grow by e*n and
\* the pending faces by f*n; without it no face is appended.
C20_PendingGrowth ==
    [][(IsMerge(call') /\ call'.mode # "PRIVATE" /\ call'.err \notin BeforeDiff) =>
          LET objects == call'.args[1]
              n == Len(locations)
              e == CountOf(objects, "Edge")
              f == IF call'.args[2] THEN CountOf(objects, "Face") ELSE 0
          IN /\ Len(builder'.pending_edges) = Len(builder.pending_edges) + e * n
             /\ Len(builder'.pending_edge_planes) = Len(builder.pending_edge_planes) + e * n
             /\ Len(builder'.pending_faces) = Len(builder.pending_faces) + f * n
             /\ Len(builder'.pending_face_planes) = Len(builder.pending_face_planes) + f * n
             /\ PairedInTurn(builder'.pending_edge_planes,
                             Len(builder.pending_edge_planes), locations)
             /\ PairedInTurn(builder'.pending_face_planes,
                             Len(builder.pending_face_planes), locations)]_vars

\* C21: when a merge fails with NothingToSubtractFrom or NothingToIntersectWith, the
\* accumulated solid, both pending queues with their plane sequences and the four
\* last-operation diff lists are exactly what they were before the call, even when the
\* failing input also held edges or faces.
C21_FailedMergeKeepsBuilder ==
    [][(IsMerge(call') /\ call'.err \in MissingPart) => builder' = builder]_vars
\* a Subtract of an edge, a face and a solid failed on a builder with no part that had
\* an edge pending from an earlier merge: the pending queues hold that edge only
C21_Witness ==
    /\ IsMerge(call) /\ call.mode = "SUBTRACT" /\ call.err = "NothingToSubtractFrom"
    /\ call.args = <<(<<Edge(1), Face(1), Solid(Cells)>>), TRUE>>
    /\ Len(builder.pending_edges) = 1 /\ Len(builder.pending_edge_planes) = 1
    /\ builder.pending_faces = <<>> /\ builder.pending_face_planes = <<>>

\* Revolve or Loft, called with no explicit profiles or sections, failed on its geometry
FailedOnPending(c) ==
    /\ c.op \in {"Revolve", "Loft"}
    /\ c.err \in {"InvalidAxis", "LoftFailed"}
    /\ ~c.args[1]

\* C22 as stated: when Revolve fails with InvalidAxis or Loft fails with LoftFailed while
\* consuming pending faces (no explicit profiles or sections given), the builder's
\* accumulated solid, pending face queue and last-operation diff are exactly what they
\* were before the call.
C22_FailedConsumerKeepsBuilder ==
    [][FailedOnPending(call') =>
          /\ builder'.part = builder.part
          /\ builder'.pending_faces = builder.pending_faces
          /\ DiffUnchanged(builder, builder')]_vars

\* what only the until-surface path of Extrude can end in: no shell to stop at, the scene
\* dimension never computed, a warning about its trim objects
UntilPathOutcome(c) == c.err \in {"ValueError", "NameError"} \/ c.ret = "Warning"
\* the errors Extrude raises on purpose
ExtrudeRejections == {"NoFaceToExtrude", "ValueError"}

\* C23 as stated: Extrude takes the fixed-distance path exactly when a non-zero amount is
\* given (even if until is also given) and the until-surface path otherwise; every call
\* that reaches the until-surface path has an until value of Next or Last, so a call with
\* neither amount nor until is rejected with a defined error before pending faces or any
\* other builder state are changed.
C23_ExtrudePaths ==
    [][(call'.op = "Extrude" /\ call'.err # "NoActiveContext") =>
          LET amount == call'.args[2]
              until == call'.args[3]
          IN /\ amount # 0 => ~UntilPathOutcome(call')
             /\ UntilPathOutcome(call') => until \in {"NEXT", "LAST"}
             /\ (amount = 0 /\ until = "None") =>
                   (call'.err \in ExtrudeRejections /\ builder' = builder)]_vars

\* C24 as stated: BuildFace and BuildHull combine the face they build into the current
\* sketch builder's surface under the mode passed by the caller: with mode Subtraction
\* the face is cut from the surface, with Intersection intersected, with Private the
\* surface is unchanged; and in every case the sketch builder's pending edges are empty
\* afterwards.
C24_BuildUnderCallersMode ==
    [][(call'.op \in {"BuildFace", "BuildHull"} /\ context_stack # <<>>) =>
          LET surface == Top(context_stack).surface
              after == Top(context_stack')
          IN /\ call'.mode = "ADDITION" => after.surface = Fuse(surface, <<SketchFace>>)
             /\ call'.mode = "SUBTRACTION" => after.surface = Cut(surface, <<SketchFace>>)
             /\ call'.mode = "INTERSECTION" =>
                   after.surface = Intersect(surface, <<SketchFace>>)
             /\ call'.mode = "PRIVATE" => after.surface = surface
             /\ after.pending_edges = <<>>]_vars

====
